---- MODULE Spec2Model ----
(***************************************************************************)
(* Model of the evolutionary engine of PROJET_DEV_LOG (algen.py): the      *)
(* operators on encoded images (mutate_img, chose_closest_tensor,          *)
(* crossing_over, remove_worst_tensor) and the pipeline create_new_images, *)
(* and of the button handlers of windows 2 and 3 of main_f.py.             *)
(*                                                                         *)
(* The repository holds two versions of algen.py, src/projet/src/algen.py  *)
(* and src/projet/idkit/algen.py.  The variable `variant` says which one   *)
(* is running ("src" or "idkit"); every operator that differs between the  *)
(* two files takes the variant as its first parameter.                     *)
(*                                                                         *)
(* An encoded image (a rank-2 tensor [channels, spatial]) is a sequence of *)
(* rows, each row a sequence of numbers; a rank-3 tensor is a sequence of  *)
(* encoded images.  Python indices 0..n-1 are the indices 1..n here.       *)
(* Component values are integers; square roots are fixed-point numbers     *)
(* with Prec units per 1.  Uniform draws and rates are counted in tenths:  *)
(* the draw 5 is 0.5 and the rate 4 is 0.4, so that "draw < rate" is       *)
(* decided as the code decides it.                                         *)
(***************************************************************************)
EXTENDS Integers, Sequences, FiniteSets, TLC

VARIABLES
    variant,     \* "src" or "idkit": the file whose code is running
    pc,          \* position of the driver / of create_new_images
    initial,     \* the tensor the driver started with
    population,  \* the caller's tensor, handed to the operator under call
    snapshot,    \* value of that tensor when the latest call was made
    target,      \* input_tensor of a chose_closest_tensor call; the outcome of
                 \* the first of two calls that are compared
    rate,        \* crossing_rate / mutation_rate of the call
    mode,        \* mode argument of mutate_img
    scale,       \* scale argument of mutate_img
    draws,       \* the random tensors drawn by the call
    result,      \* what the call returned or raised
    frame,       \* the local variables of create_new_images
    gen_img,     \* the 'gen_img' directory: file name -> saved image
    log,         \* the calls create_new_images has made, in order
    gui          \* main_f.py: the window that is open, its widgets' variables
                 \* and what the latest button handler did

vars == <<variant, pc, initial, population, snapshot, target, rate, mode, scale,
          draws, result, frame, gen_img, log, gui>>

-----------------------------------------------------------------------------
(* Bounds of the model *)

\* largest component value of an input tensor
MaxVal == 1
\* largest population handed to remove_worst_tensor and to
\* chose_closest_tensor (as candidates)
MaxPop == 3
\* fixed-point precision of square roots: units per 1
Prec == 1000

\* [channels, spatial] of every encoded image of a run (the codec's
\* (64, 18*18) scaled down)
Shape == <<1, 2>>
\* uniform draws of torch.rand, in tenths: 0.0 and 0.5
Draws == {0, 5}
\* rates, in tenths: 0 is 0.0, 10 is 1.0; -5 and 15 lie outside [0, 1]
Rates == {-5, 0, 5, 10, 15}
\* the two files
Variants == {"src", "idkit"}
\* number of images create_new_images is given
NumSeeds == 3

-----------------------------------------------------------------------------
(* Tensors *)

Rows == 1..Shape[1]
Cols == 1..Shape[2]
\* all encoded images with components in 0..MaxVal
Vectors == [Rows -> [Cols -> 0..MaxVal]]
\* all rank-3 tensors of n encoded images
PopulationsOf(n) == [1..n -> Vectors]
\* one random tensor of the size of an encoded image
DrawTensors(S) == [Rows -> [Cols -> S]]

RECURSIVE SeqSum(_)
SeqSum(s) == IF s = <<>> THEN 0 ELSE s[1] + SeqSum(Tail(s))

RECURSIVE Flatten(_)
\* the components of a tensor, row after row
Flatten(t) == IF t = <<>> THEN <<>> ELSE t[1] \o Flatten(Tail(t))

NumEl(t) == Len(Flatten(t))

RECURSIVE ISqrtIn(_, _, _)
ISqrtIn(n, lo, hi) ==
    IF lo >= hi THEN lo
    ELSE LET mid == (lo + hi + 1) \div 2
         IN  IF mid * mid <= n THEN ISqrtIn(n, mid, hi)
                               ELSE ISqrtIn(n, lo, mid - 1)
\* floor of the square root of n, 0 <= n < 2^31
ISqrt(n) == ISqrtIn(n, 0, IF n < 46340 THEN n ELSE 46340)
\* sqrt(num / den) as a fixed-point number
FixSqrt(num, den) == ISqrt((Prec * Prec * num) \div den)

\* sum of the squared differences of two encoded images
SqDist(a, b) ==
    LET fa == Flatten(a)
        fb == Flatten(b)
    IN  SeqSum([k \in 1..Len(fa) |-> (fa[k] - fb[k]) * (fa[k] - fb[k])])

\* the differences summed without being squared
dist_unsquared(a, b) ==
    LET fa == Flatten(a)
        fb == Flatten(b)
    IN  Prec * SeqSum([k \in 1..Len(fa) |-> fa[k] - fb[k]])

\* torch.dist(a, b, p=2) of two encoded images
dist(a, b) == FixSqrt(SqDist(a, b), 1)

\* argmin answering the last minimal value instead of the first
argmin_last(s) ==
    CHOOSE i \in 1..Len(s) :
        /\ \A j \in 1..Len(s) : s[i] <= s[j]
        /\ \A j \in (i + 1)..Len(s) : s[j] > s[i]

\* torch.argmin / torch.argmax of a non-empty rank-1 tensor: the index of
\* the first minimal (maximal) value
argmin(s) ==
    CHOOSE i \in 1..Len(s) :
        /\ \A j \in 1..Len(s) : s[i] <= s[j]
        /\ \A j \in 1..(i - 1) : s[j] > s[i]
argmax(s) ==
    CHOOSE i \in 1..Len(s) :
        /\ \A j \in 1..Len(s) : s[i] >= s[j]
        /\ \A j \in 1..(i - 1) : s[j] < s[i]

\* t[mask]: the members of t whose mask entry is TRUE, in order
RECURSIVE Select(_, _)
Select(t, mask) ==
    IF t = <<>> THEN <<>>
    ELSE (IF mask[1] THEN <<t[1]>> ELSE <<>>) \o Select(Tail(t), Tail(mask))

\* a blend in place of a choice: a + b where cond holds
where_added(cond, a, b) ==
    [r \in Rows |-> [c \in Cols |-> IF cond[r][c] THEN a[r][c] + b[r][c] ELSE b[r][c]]]

\* torch.where(cond, a, b) on encoded images
where(cond, a, b) ==
    [r \in Rows |-> [c \in Cols |-> IF cond[r][c] THEN a[r][c] ELSE b[r][c]]]

-----------------------------------------------------------------------------
(* Outcomes of a call *)

Return(v, aux) == [ok |-> TRUE, value |-> v, exc |-> "", param |-> "", aux |-> aux]
Raise(exc, param) == [ok |-> FALSE, value |-> <<>>, exc |-> exc, param |-> param, aux |-> <<>>]
NoResult == [ok |-> FALSE, value |-> <<>>, exc |-> "not called", param |-> "", aux |-> <<>>]

-----------------------------------------------------------------------------
(* chose_closest_tensor *)

\* the candidate at the largest distance instead of the smallest
chose_farthest_tensor(input_tensor, other_tensors) ==
    LET dist_list == [k \in 1..Len(other_tensors) |-> dist(input_tensor, other_tensors[k])]
    IN  IF dist_list = <<>>
        THEN Raise("IndexError", "")
        ELSE Return(other_tensors[argmax(dist_list)], argmax(dist_list))

\* torch.argmin raises on a tensor without elements
chose_closest_tensor(input_tensor, other_tensors) ==
    LET dist_list == [k \in 1..Len(other_tensors) |-> dist(input_tensor, other_tensors[k])]
    IN  IF dist_list = <<>>
        THEN Raise("IndexError", "")
        ELSE Return(other_tensors[argmin(dist_list)], argmin(dist_list))

-----------------------------------------------------------------------------
(* crossing_over *)

\* the sub-tensor the donor of member i is chosen in: the members at the
\* other indices (src), the members whose values differ from member i's
\* (idkit, torch.equal)
other_tensor(v, tensor_encoded, i) ==
    IF v = "src"
    THEN Select(tensor_encoded, [k \in 1..Len(tensor_encoded) |-> k # i])
    ELSE Select(tensor_encoded,
                [k \in 1..Len(tensor_encoded) |-> tensor_encoded[k] # tensor_encoded[i]])

\* the swap with "draw <= rate" in place of "draw < rate"
crossed_tensor_le(crossing_draw, crossing_rate, chosen_tensor, tensor) ==
    where([r \in Rows |-> [c \in Cols |-> crossing_draw[r][c] <= crossing_rate]],
          chosen_tensor, tensor)

\* the swap of one member: the donor's value where the draw is below the
\* rate, the member's own value elsewhere
crossed_tensor(crossing_draw, crossing_rate, chosen_tensor, tensor) ==
    where([r \in Rows |-> [c \in Cols |-> crossing_draw[r][c] < crossing_rate]],
          chosen_tensor, tensor)

\* global_tensor = torch.zeros(tensor_encoded.size())
zeros(n) == [k \in 1..n |-> [r \in Rows |-> [c \in Cols |-> 0]]]

\* the loop writing each crossed member into tensor_encoded itself, so that
\* the members after it are crossed with what was written
RECURSIVE crossing_loop_in_place(_, _, _, _, _, _, _)
crossing_loop_in_place(v, tensor_encoded, crossing_rate, crossing_tensor, i, global_tensor, chosen) ==
    IF i > Len(tensor_encoded)
    THEN Return(global_tensor, chosen)
    ELSE LET tensor == tensor_encoded[i]
             closest == chose_closest_tensor(tensor, other_tensor(v, tensor_encoded, i))
         IN  IF ~closest.ok
             THEN closest
             ELSE LET new_tensor == crossed_tensor(crossing_tensor[i], crossing_rate,
                                                   closest.value, tensor)
                  IN  crossing_loop_in_place(v, [tensor_encoded EXCEPT ![i] = new_tensor],
                          crossing_rate, crossing_tensor, i + 1,
                          [global_tensor EXCEPT ![i] = new_tensor],
                          Append(chosen, closest.value))

\* the for loop of crossing_over from member i on; global_tensor holds the
\* members written so far, chosen the donors of the members done so far
RECURSIVE crossing_loop(_, _, _, _, _, _, _)
crossing_loop(v, tensor_encoded, crossing_rate, crossing_tensor, i, global_tensor, chosen) ==
    IF i > Len(tensor_encoded)
    THEN Return(global_tensor, chosen)
    ELSE LET tensor == tensor_encoded[i]
             closest == chose_closest_tensor(tensor, other_tensor(v, tensor_encoded, i))
         IN  IF ~closest.ok
             THEN closest
             ELSE crossing_loop(v, tensor_encoded, crossing_rate, crossing_tensor, i + 1,
                      [global_tensor EXCEPT ![i] =
                          crossed_tensor(crossing_tensor[i], crossing_rate,
                                         closest.value, tensor)],
                      Append(chosen, closest.value))

\* crossing_over(tensor_encoded, crossing_rate); crossing_tensor holds the
\* torch.rand draw of each iteration.  The result's aux field lists the
\* donor (chosen_tensor) of every member.
crossing_over(v, tensor_encoded, crossing_rate, crossing_tensor) ==
    crossing_loop(v, tensor_encoded, crossing_rate, crossing_tensor, 1,
                  zeros(Len(tensor_encoded)), <<>>)

-----------------------------------------------------------------------------
(* remove_worst_tensor *)

\* tensor.std() of one encoded image (unbiased), fixed-point
std(t) ==
    LET f == Flatten(t)
        n == Len(f)
        s == SeqSum(f)
        q == SeqSum([k \in 1..n |-> f[k] * f[k]])
    IN  FixSqrt(n * q - s * s, n * (n - 1))

\* torch.dist(tensor, input_tensor): tensor is broadcast against every
\* member of input_tensor and one norm is taken over all the differences
dist_to_all(tensor, input_tensor) ==
    FixSqrt(SeqSum([k \in 1..Len(input_tensor) |-> SqDist(tensor, input_tensor[k])]), 1)

\* a score taken against the first member only, in both files
worst_score_to_first(v, input_tensor) ==
    [k \in 1..Len(input_tensor) |-> dist(input_tensor[k], input_tensor[1])]

\* the score whose maximum designates the member to remove:
\* input_tensor.std(dim=(1, 2)) in src, dist_tensor in idkit
worst_score(v, input_tensor) ==
    IF v = "src"
    THEN [k \in 1..Len(input_tensor) |-> std(input_tensor[k])]
    ELSE [k \in 1..Len(input_tensor) |-> dist_to_all(input_tensor[k], input_tensor)]

\* remove_worst_tensor dropping every member that attains the maximum
remove_worst_tensor_all(v, input_tensor) ==
    LET score == worst_score(v, input_tensor)
    IN  IF score = <<>>
        THEN Raise("IndexError", "")
        ELSE LET worst == argmax(score)
                 is_kept == [k \in 1..Len(input_tensor) |-> score[k] # score[worst]]
             IN  Return(Select(input_tensor, is_kept), worst)

\* remove_worst_tensor(input_tensor); torch.argmax raises on a tensor
\* without elements.  The result's aux field is the index removed.
remove_worst_tensor(v, input_tensor) ==
    LET score == worst_score(v, input_tensor)
    IN  IF score = <<>>
        THEN Raise("IndexError", "")
        ELSE LET worst == argmax(score)
                 is_kept == [k \in 1..Len(input_tensor) |-> k # worst]
             IN  Return(Select(input_tensor, is_kept), worst)

-----------------------------------------------------------------------------
(* mutate_img *)
(* The tensors of a mutate_img call hold fixed-point values, Prec units    *)
(* per 1, so that mean and standard deviation keep their fractions.  A     *)
(* tensor argument is a record: its Python type, its dim() and its data.   *)

Tensor2(t) == [type |-> "Tensor", dim |-> 2, data |-> t]
Tensor3(t) == [type |-> "Tensor", dim |-> 3, data |-> t]

\* an encoded image of integers as fixed-point values
Fixed(t) == [r \in Rows |-> [c \in Cols |-> Prec * t[r][c]]]

\* tensor.mean() of a fixed-point tensor
mean_fp(t) == SeqSum(Flatten(t)) \div NumEl(t)

\* tensor.std() of a fixed-point tensor (unbiased)
std_fp(t) ==
    LET f == Flatten(t)
        n == Len(f)
        s == SeqSum(f)
        q == SeqSum([k \in 1..n |-> f[k] * f[k]])
    IN  ISqrt((n * q - s * s) \div (n * (n - 1)))

\* mut_proba_tensor <= mutation_rate
selected_le(mut_proba_tensor, mutation_rate) ==
    [r \in Rows |-> [c \in Cols |-> mut_proba_tensor[r][c] <= mutation_rate]]

\* mut_proba_tensor < mutation_rate
selected(mut_proba_tensor, mutation_rate) ==
    [r \in Rows |-> [c \in Cols |-> mut_proba_tensor[r][c] < mutation_rate]]

\* how many selected components come at or before [r][c], row after row
SelRank(cond, r, c) ==
    Cardinality({p \in Rows \X Cols :
                    /\ cond[p[1]][p[2]]
                    /\ (p[1] < r \/ (p[1] = r /\ p[2] <= c))})

\* mu + torch.randn(size), the draw not scaled by std
reconstructed_unscaled(mu, sd, normal) ==
    [r \in Rows |-> [c \in Cols |-> mu + normal[r][c] * Prec]]

\* mu + torch.randn(size) * std
reconstructed(mu, sd, normal) ==
    [r \in Rows |-> [c \in Cols |-> mu + normal[r][c] * sd]]

\* tensor + noise * torch.randn(size)
noised(tensor, noise, normal) ==
    [r \in Rows |-> [c \in Cols |-> tensor[r][c] + noise * Prec * normal[r][c]]]

\* the name the ValueError for a wrong mode gives to the parameter
mode_name(v) == IF v = "src" THEN "modif" ELSE "mode"

\* the branch for tensor_encoded.dim() == 2.  img_mut is the caller's tensor
\* itself: += and masked assignment write into it.  The result's aux field
\* is the caller's tensor after the call.
mutate_rank2(v, tensor, mutation_rate, noise, mode_, scale_, mut_proba_tensor, normal) ==
    LET cond == selected(mut_proba_tensor, mutation_rate)
        flat == Flatten(normal)
    IN  IF mode_ = "add"
        THEN IF scale_ = "partial"
             THEN LET img_mut == where(cond, noised(tensor, noise, normal), tensor)
                  IN  Return(img_mut, img_mut)
             ELSE IF scale_ = "total"
             THEN LET img_mut == noised(tensor, noise, normal)
                  IN  Return(img_mut, img_mut)
             ELSE Raise("ValueError", "scale")
        ELSE IF mode_ = "reconstruct"
        THEN LET mu == mean_fp(tensor)
                 sd == std_fp(tensor)
             IN  IF scale_ = "partial"
                 THEN LET img_mut ==
                              [r \in Rows |-> [c \in Cols |->
                                  IF cond[r][c]
                                  THEN mu + flat[SelRank(cond, r, c)] * sd
                                  ELSE tensor[r][c]]]
                      IN  Return(img_mut, img_mut)
                 ELSE IF scale_ = "total"
                 THEN Return(reconstructed(mu, sd, normal), tensor)
                 ELSE Raise("ValueError", "scale")
        ELSE Raise("ValueError", mode_name(v))

\* one iteration of the loop of the branch for tensor_encoded.dim() == 3:
\* img_mut is rebound to new tensors, the member itself is not written.  The
\* 'reconstruct' branch has no else for a wrong scale.
mutate_member(v, tensor, mutation_rate, noise, mode_, scale_, mut_proba_tensor, normal) ==
    LET cond == selected(mut_proba_tensor, mutation_rate)
    IN  IF mode_ = "add"
        THEN IF scale_ = "partial"
             THEN Return(where(cond, noised(tensor, noise, normal), tensor), <<>>)
             ELSE IF scale_ = "total"
             THEN Return(noised(tensor, noise, normal), <<>>)
             ELSE Raise("ValueError", "scale")
        ELSE IF mode_ = "reconstruct"
        THEN LET mu == mean_fp(tensor)
                 sd == std_fp(tensor)
             IN  IF scale_ = "partial"
                 THEN Return(where(cond, reconstructed(mu, sd, normal), tensor), <<>>)
                 ELSE IF scale_ = "total"
                 THEN Return(reconstructed(mu, sd, normal), <<>>)
                 ELSE Return(tensor, <<>>)
        ELSE Raise("ValueError", mode_name(v))

\* the loop of the branch for tensor_encoded.dim() == 3 from member i on
RECURSIVE mutate_loop(_, _, _, _, _, _, _, _, _, _)
mutate_loop(v, tensor_encoded, mutation_rate, noise, mode_, scale_, mut_proba_tensor, normal, i, global_tensor) ==
    IF i > Len(tensor_encoded)
    THEN Return(global_tensor, tensor_encoded)
    ELSE LET img_mut == mutate_member(v, tensor_encoded[i], mutation_rate, noise, mode_,
                                      scale_, mut_proba_tensor[i], normal[i])
         IN  IF ~img_mut.ok
             THEN img_mut
             ELSE mutate_loop(v, tensor_encoded, mutation_rate, noise, mode_, scale_,
                              mut_proba_tensor, normal, i + 1,
                              [global_tensor EXCEPT ![i] = img_mut.value])

\* mutate_img looking at mode before it looks at the type and the rank
mutate_img_mode_first(v, tensor_encoded, mutation_rate, noise, mode_, scale_, mut_proba_tensor, normal) ==
    IF mode_ \notin {"add", "reconstruct"}
    THEN Raise("ValueError", mode_name(v))
    ELSE IF tensor_encoded.type # "Tensor"
    THEN Raise("TypeError", "tensor_encoded")
    ELSE IF tensor_encoded.dim = 2
    THEN mutate_rank2(v, tensor_encoded.data, mutation_rate, noise, mode_, scale_,
                      mut_proba_tensor[1], normal[1])
    ELSE IF tensor_encoded.dim = 3
    THEN mutate_loop(v, tensor_encoded.data, mutation_rate, noise, mode_, scale_,
                     mut_proba_tensor, normal, 1, zeros(Len(tensor_encoded.data)))
    ELSE Raise("TypeError", "tensor_encoded")

\* mutate_img(tensor_encoded, mutation_rate, noise, mode, scale);
\* mut_proba_tensor and normal hold the torch.rand and torch.randn draws, one
\* tensor per member.  The result's aux field is the data of the caller's
\* tensor after the call.
mutate_img(v, tensor_encoded, mutation_rate, noise, mode_, scale_, mut_proba_tensor, normal) ==
    IF tensor_encoded.type # "Tensor"
    THEN Raise("TypeError", "tensor_encoded")
    ELSE IF tensor_encoded.dim = 2
    THEN mutate_rank2(v, tensor_encoded.data, mutation_rate, noise, mode_, scale_,
                      mut_proba_tensor[1], normal[1])
    ELSE IF tensor_encoded.dim = 3
    THEN mutate_loop(v, tensor_encoded.data, mutation_rate, noise, mode_, scale_,
                     mut_proba_tensor, normal, 1, zeros(Len(tensor_encoded.data)))
    ELSE Raise("TypeError", "tensor_encoded")

-----------------------------------------------------------------------------
(* create_new_images *)

\* the local variables of create_new_images before it runs
NoFrame == [img_encoded_tensor |-> <<>>, crossed_img |-> <<>>, more_crossing |-> <<>>,
            new_tensors |-> <<>>, good_5_tensors |-> <<>>, new_images |-> <<>>]

\* an image path whose file cannot be opened and encoded
Missing == <<>>

\* flatten_img skipping the paths it cannot open
RECURSIVE flatten_img_skip(_)
flatten_img_skip(img_path) ==
    IF img_path = <<>>
    THEN Return(<<>>, <<>>)
    ELSE Return((IF Head(img_path) = Missing THEN <<>> ELSE <<Head(img_path)>>)
                    \o flatten_img_skip(Tail(img_path)).value, <<>>)

\* flatten_img(img_path): one encoded image per path, in order; opening a
\* missing file raises.  A path stands for the encoded image the codec
\* yields for it.
flatten_img(img_path) ==
    IF \E k \in 1..Len(img_path) : img_path[k] = Missing
    THEN Raise("FileNotFoundError", "img_path")
    ELSE Return(img_path, <<>>)

\* crossing_rate of the two crossing_over calls, in tenths
pipeline_rate(v) == IF v = "src" THEN 4 ELSE 5

\* torch.cat((a, b), dim=0)
cat(a, b) == a \o b

\* ae.decode of one encoded image: the image is known by the encoded image
\* it was decoded from; the src file then applies two filters
decode(v, flat_img) ==
    [decoded |-> flat_img,
     filters |-> IF v = "src" THEN <<"SMOOTH", "SHARPEN">> ELSE <<>>]

\* deflatten_img returning from inside its loop, after the first member
deflatten_img_first(v, flat_tensor) ==
    Return([k \in 1..(IF flat_tensor = <<>> THEN 0 ELSE 1) |-> decode(v, flat_tensor[k])], <<>>)

\* deflatten_img(flat_tensor, (64, 18, 18)) on a rank-3 tensor: the decoded
\* images in the order of the members
deflatten_img(v, flat_tensor) ==
    Return([k \in 1..Len(flat_tensor) |-> decode(v, flat_tensor[k])], <<>>)

\* names counted from 1
image_name_from_one(i) == <<"image", i + 1, ".png">>

\* name = f"image{i}.png" of the i-th image (i from 0)
image_name(i) == <<"image", i, ".png">>

-----------------------------------------------------------------------------
(* main_f.py: windows 2 and 3 *)
(* tkinter's TRUE and FALSE are the booleans here; a StringVar holds ""    *)
(* until a radio button is chosen, an IntVar holds 0 until its check box   *)
(* is ticked.                                                              *)

\* Python's None, which no StringVar.get() returns
None == "<None>"

\* values of the hair-colour Combobox; the first one is shown at the start
listtest ==
    <<"Veuillez choisir un élément", "Noirs", "Blonds", "Bruns", "Gris", "Chauve",
      "Ne sait pas">>

\* the colours liste_db numbers from 1
list_cheveux == <<"Noirs", "Blonds", "Bruns", "Gris", "Chauve">>

\* no window of main_f.py is in use
NoGui ==
    [window |-> "none", vari |-> "", valeur |-> "", menucombo |-> "",
     vlun |-> 0, vmous |-> 0, vbrd |-> 0, vnsp |-> 0,
     vb |-> <<0, 0, 0, 0, 0>>, vfinal |-> 0,
     ans_user |-> <<>>, handler |-> "", read |-> <<>>, message |-> "", exc |-> ""]

\* window 2 as f2 creates it
NewF2 == [NoGui EXCEPT !.window = "f2", !.menucombo = listtest[1]]

\* window 3 as f3 creates it for the answers ans_user
NewF3(ans_user) == [NoGui EXCEPT !.window = "f3", !.ans_user = ans_user]

\* recup_valCkB(): the accessory check boxes of window 2
recup_valCkB(g) == <<g.vlun, g.vmous, g.vbrd, g.vnsp>>

\* verif_reponses(): stop, from the gender g, the age a, the hair colour c
\* and the accessories acc that the recup_ functions return
verif_reponses(g, a, c, acc) ==
    g = None \/ a = None \/ c = "Veuillez choisir un élément" \/ acc = <<>>

\* range(a, b) of Python
range(a, b) == a..(b - 1)

\* liste_db(): the header row and the value row; i is the Python index of a
\* column
liste_db(g, a, c, acc) ==
    <<<<"Genre", "Age", "Cheveux", "Lunettes", "Moustache", "Barbe">>,
      [k \in 1..6 |->
          LET i == k - 1
          IN  IF i = 0 THEN (IF g = "1" THEN 1 ELSE IF g = "2" THEN 2 ELSE 0)
              ELSE IF i = 1 THEN (IF a = "3" THEN 1 ELSE IF a = "4" THEN 2 ELSE 0)
              ELSE IF i = 2
              THEN (IF \E j \in 1..Len(list_cheveux) : list_cheveux[j] = c
                    THEN CHOOSE j \in 1..Len(list_cheveux) : list_cheveux[j] = c
                    ELSE 0)
              ELSE IF i \in range(3, 5) /\ acc[(i - 3) + 1] = 1 THEN 1
              ELSE 0]>>

\* recup_valCheckB(): the check boxes of window 3, 'Finale' last
recup_valCheckB(g) == g.vb \o <<g.vfinal>>

\* verif_rep(): (stop, index, finale); finale is assigned only when the
\* 'Finale' box is ticked, and returning it unassigned raises
verif_rep(checkbut) ==
    LET chosen == {i \in range(0, Len(checkbut) - 1) : checkbut[i + 1] = 1}
        compte == Cardinality(chosen)
        index == IF chosen = {} THEN 0 ELSE CHOOSE i \in chosen : \A j \in chosen : j <= i
        stop == (compte = 1)
    IN  IF checkbut[6] = 1
        THEN Return(<<stop, index, TRUE>>, <<>>)
        ELSE Raise("UnboundLocalError", "finale")

-----------------------------------------------------------------------------
(* Drivers: one operator called on inputs drawn from the bounded sets *)


PopulationsUpTo(n) == UNION {PopulationsOf(k) : k \in 0..n}

\* ---- chose_closest_tensor(target, population)
InitClosest ==
    /\ variant \in Variants
    /\ gui = NoGui
    /\ pc = "call"
    /\ initial \in PopulationsUpTo(MaxPop)
    /\ population = initial
    /\ snapshot = initial
    /\ target \in Vectors
    /\ rate = 0 /\ mode = "" /\ scale = ""
    /\ draws = <<>>
    /\ result = NoResult
    /\ frame = NoFrame /\ gen_img = <<>> /\ log = <<>>

ChoseClosest ==
    /\ pc = "call"
    /\ result' = chose_closest_tensor(target, population)
    /\ pc' = "done"
    /\ log' = Append(log, "chose_closest_tensor")
    /\ UNCHANGED <<gui, variant, initial, population, snapshot, target, rate, mode, scale,
                   draws, frame, gen_img>>

NextClosest == ChoseClosest

SpecClosest == InitClosest /\ [][NextClosest]_vars

\* ---- crossing_over(population, rate)
InitCross ==
    /\ variant \in Variants
    /\ gui = NoGui
    /\ pc = "call"
    /\ initial \in PopulationsUpTo(NumSeeds)
    /\ population = initial
    /\ snapshot = initial
    /\ target = <<>>
    /\ rate \in Rates
    /\ mode = "" /\ scale = ""
    /\ draws = <<>>
    /\ result = NoResult
    /\ frame = NoFrame /\ gen_img = <<>> /\ log = <<>>

CrossingOver ==
    /\ pc = "call"
    /\ \E crossing_tensor \in [1..Len(population) -> DrawTensors(Draws)] :
          /\ draws' = crossing_tensor
          /\ result' = crossing_over(variant, population, rate, crossing_tensor)
    /\ pc' = "done"
    /\ log' = Append(log, "crossing_over")
    /\ UNCHANGED <<gui, variant, initial, population, snapshot, target, rate, mode, scale,
                   frame, gen_img>>

NextCross == CrossingOver

SpecCross == InitCross /\ [][NextCross]_vars

\* ---- population = remove_worst_tensor(population), again and again
InitCull ==
    /\ variant \in Variants
    /\ gui = NoGui
    /\ pc = "call"
    /\ initial \in PopulationsUpTo(MaxPop)
    /\ population = initial
    /\ snapshot = initial
    /\ target = <<>>
    /\ rate = 0 /\ mode = "" /\ scale = ""
    /\ draws = <<>>
    /\ result = NoResult
    /\ frame = NoFrame /\ gen_img = <<>> /\ log = <<>>

RemoveWorstTensor ==
    /\ pc = "call"
    /\ snapshot' = population
    /\ result' = remove_worst_tensor(variant, population)
    /\ IF result'.ok
       THEN population' = result'.value /\ pc' = "call"
       ELSE population' = population /\ pc' = "failed"
    /\ log' = Append(log, "remove_worst_tensor")
    /\ UNCHANGED <<gui, variant, initial, target, rate, mode, scale, draws, frame, gen_img>>

NextCull == RemoveWorstTensor

SpecCull == InitCull /\ [][NextCull]_vars

\* ---- remove_worst_tensor(initial), then remove_worst_tensor of initial
\* with the members other than the removed one reordered
\* the reorderings of a population of n members that leave member k in place
Reorderings(n, k) == {p \in Permutations(1..n) : p[k] = k}

InitCullPerm ==
    /\ variant \in Variants
    /\ gui = NoGui
    /\ pc = "call"
    /\ initial \in PopulationsUpTo(MaxPop)
    /\ population = initial
    /\ snapshot = initial
    /\ target = <<>>
    /\ rate = 0 /\ mode = "" /\ scale = ""
    /\ draws = <<>>
    /\ result = NoResult
    /\ frame = NoFrame /\ gen_img = <<>> /\ log = <<>>

\* the call on the population as given; target keeps its outcome
CullOriginal ==
    /\ pc = "call"
    /\ result' = remove_worst_tensor(variant, population)
    /\ target' = result'
    /\ pc' = IF result'.ok THEN "permute" ELSE "failed"
    /\ log' = Append(log, "remove_worst_tensor")
    /\ UNCHANGED <<gui, variant, initial, population, snapshot, rate, mode, scale, draws,
                   frame, gen_img>>

\* the call on the reordered population; draws keeps the reordering
CullPermuted ==
    /\ pc = "permute"
    /\ \E p \in Reorderings(Len(initial), target.aux) :
          /\ draws' = p
          /\ population' = [k \in 1..Len(initial) |-> initial[p[k]]]
    /\ snapshot' = population'
    /\ result' = remove_worst_tensor(variant, population')
    /\ pc' = "done"
    /\ log' = Append(log, "remove_worst_tensor")
    /\ UNCHANGED <<gui, variant, initial, target, rate, mode, scale, frame, gen_img>>

NextCullPerm ==
    \/ CullOriginal
    \/ CullPermuted

SpecCullPerm == InitCullPerm /\ [][NextCullPerm]_vars

\* ---- mutate_img(population, rate, mode, scale)
\* values of the mode and scale arguments: the valid ones and a wrong one
Modes == {"add", "reconstruct", "blend"}
Scales == {"partial", "total", "blend"}
\* rates of the mutate_img calls, in tenths
MutationRates == {0, 5, 10}
\* standard normal draws of torch.randn
Normals == {-1, 1}
\* sizes of the rank-3 tensors handed to mutate_img
MutatedSizes == 1..2
\* default of the noise parameter (the idkit file has no such parameter and
\* multiplies by nothing)
DefaultNoise == 1

\* the arguments handed to mutate_img: rank-2 and rank-3 tensors, a rank-1
\* and a rank-4 tensor and a numpy array
MutateInputs ==
    {Tensor2(Fixed(t)) : t \in Vectors}
    \cup {Tensor3([k \in 1..Len(p) |-> Fixed(p[k])]) :
              p \in UNION {PopulationsOf(n) : n \in MutatedSizes}}
    \cup {[type |-> "Tensor", dim |-> 1, data |-> <<0, Prec>>],
          [type |-> "Tensor", dim |-> 4, data |-> <<<<Fixed([r \in Rows |-> [c \in Cols |-> 0]])>>>>],
          [type |-> "ndarray", dim |-> 2, data |-> Fixed([r \in Rows |-> [c \in Cols |-> 0]])]}

InitMutate ==
    /\ variant \in Variants
    /\ gui = NoGui
    /\ pc = "call"
    /\ initial \in MutateInputs
    /\ population = initial
    /\ snapshot = initial
    /\ target = <<>>
    /\ rate \in MutationRates
    /\ mode \in Modes
    /\ scale \in Scales
    /\ draws = <<>>
    /\ result = NoResult
    /\ frame = NoFrame /\ gen_img = <<>> /\ log = <<>>

\* the number of members torch.rand / torch.randn are called for
DrawnMembers(t) ==
    IF t.type # "Tensor" \/ mode \notin {"add", "reconstruct"} \/ scale \notin {"partial", "total"}
    THEN 0
    ELSE IF t.dim = 2 THEN 1
    ELSE IF t.dim = 3 THEN Len(t.data)
    ELSE 0

MutateImg ==
    /\ pc = "call"
    /\ \E mut_proba_tensor \in [1..DrawnMembers(population) ->
                                   DrawTensors(IF scale = "partial" THEN Draws ELSE {0})],
          normal \in [1..DrawnMembers(population) -> DrawTensors(Normals)] :
          /\ draws' = [proba |-> mut_proba_tensor, normal |-> normal]
          /\ result' = mutate_img(variant, population, rate, DefaultNoise, mode, scale,
                                  IF mut_proba_tensor = <<>> THEN <<<<>>>> ELSE mut_proba_tensor,
                                  IF normal = <<>> THEN <<<<>>>> ELSE normal)
    /\ population' = IF result'.ok THEN [population EXCEPT !.data = result'.aux]
                                   ELSE population
    /\ pc' = "done"
    /\ log' = Append(log, "mutate_img")
    /\ UNCHANGED <<gui, variant, initial, snapshot, target, rate, mode, scale, frame, gen_img>>

NextMutate == MutateImg

SpecMutate == InitMutate /\ [][NextMutate]_vars

\* ---- create_new_images(initial, env_path), one statement per step
\* the encoded images the seeds may have: all-zero except for one component,
\* which is 1, or 2 in the first column
SeedVectors ==
    {t \in [Rows -> [Cols -> {0, 1, 2}]] :
        /\ Cardinality({p \in Rows \X Cols : t[p[1]][p[2]] # 0}) = 1
        /\ \A r \in Rows : \A c \in Cols : t[r][c] = 2 => c = 1}

Init ==
    /\ variant \in Variants
    /\ gui = NoGui
    /\ pc = "flatten_img"
    /\ initial \in [1..NumSeeds -> SeedVectors \cup {Missing}]
    /\ population = <<>>
    /\ snapshot = <<>>
    /\ target = <<>>
    /\ rate = 0 /\ mode = "" /\ scale = ""
    /\ draws = <<>>
    /\ result = NoResult
    /\ frame = NoFrame /\ gen_img = <<>> /\ log = <<>>

\* what no step of create_new_images writes
PipelineFrame == UNCHANGED <<gui, variant, initial, population, snapshot, target, rate,
                            mode, scale, draws>>

\* a statement that raised: create_new_images ends with the exception
Propagate(r) ==
    /\ pc' = "raised"
    /\ result' = r
    /\ UNCHANGED <<frame, gen_img>>

\* img_encoded_tensor = flatten_img(img_path)
FlattenImg ==
    /\ pc = "flatten_img"
    /\ log' = Append(log, "flatten_img")
    /\ LET r == flatten_img(initial)
       IN  IF r.ok
           THEN /\ frame' = [frame EXCEPT !.img_encoded_tensor = r.value]
                /\ pc' = "crossing_over_1"
                /\ UNCHANGED <<result, gen_img>>
           ELSE Propagate(r)
    /\ PipelineFrame

\* crossed_img = crossing_over(img_encoded_tensor, crossing_rate)
CrossFirst ==
    /\ pc = "crossing_over_1"
    /\ log' = Append(log, "crossing_over")
    /\ \E crossing_tensor \in [1..Len(frame.img_encoded_tensor) -> DrawTensors(Draws)] :
          LET r == crossing_over(variant, frame.img_encoded_tensor,
                                 pipeline_rate(variant), crossing_tensor)
          IN  IF r.ok
              THEN /\ frame' = [frame EXCEPT !.crossed_img = r.value]
                   /\ pc' = "crossing_over_2"
                   /\ UNCHANGED <<result, gen_img>>
              ELSE Propagate(r)
    /\ PipelineFrame

\* the second crossing taking the first crossing's output
CrossSecondChained ==
    /\ pc = "crossing_over_2"
    /\ log' = Append(log, "crossing_over")
    /\ \E crossing_tensor \in [1..Len(frame.crossed_img) -> DrawTensors(Draws)] :
          LET r == crossing_over(variant, frame.crossed_img,
                                 pipeline_rate(variant), crossing_tensor)
          IN  IF r.ok
              THEN /\ frame' = [frame EXCEPT !.more_crossing = r.value]
                   /\ pc' = "cat"
                   /\ UNCHANGED <<result, gen_img>>
              ELSE Propagate(r)
    /\ PipelineFrame

\* more_crossing = crossing_over(img_encoded_tensor, crossing_rate)
CrossSecond ==
    /\ pc = "crossing_over_2"
    /\ log' = Append(log, "crossing_over")
    /\ \E crossing_tensor \in [1..Len(frame.img_encoded_tensor) -> DrawTensors(Draws)] :
          LET r == crossing_over(variant, frame.img_encoded_tensor,
                                 pipeline_rate(variant), crossing_tensor)
          IN  IF r.ok
              THEN /\ frame' = [frame EXCEPT !.more_crossing = r.value]
                   /\ pc' = "cat"
                   /\ UNCHANGED <<result, gen_img>>
              ELSE Propagate(r)
    /\ PipelineFrame

\* new_tensors = torch.cat((crossed_img, more_crossing), dim=0)
Concatenate ==
    /\ pc = "cat"
    /\ log' = Append(log, "cat")
    /\ frame' = [frame EXCEPT !.new_tensors = cat(frame.crossed_img, frame.more_crossing)]
    /\ pc' = "remove_worst_tensor"
    /\ UNCHANGED <<result, gen_img>>
    /\ PipelineFrame

\* good_5_tensors = remove_worst_tensor(new_tensors)
KeepBest ==
    /\ pc = "remove_worst_tensor"
    /\ log' = Append(log, "remove_worst_tensor")
    /\ LET r == remove_worst_tensor(variant, frame.new_tensors)
       IN  IF r.ok
           THEN /\ frame' = [frame EXCEPT !.good_5_tensors = r.value]
                /\ pc' = "deflatten_img"
                /\ UNCHANGED <<result, gen_img>>
           ELSE Propagate(r)
    /\ PipelineFrame

\* new_images = deflatten_img(good_5_tensors, (64, 18, 18))
DeflattenImg ==
    /\ pc = "deflatten_img"
    /\ log' = Append(log, "deflatten_img")
    /\ LET r == deflatten_img(variant, frame.good_5_tensors)
       IN  /\ frame' = [frame EXCEPT !.new_images = r.value]
           /\ pc' = "save"
           /\ UNCHANGED <<result, gen_img>>
    /\ PipelineFrame

\* img.save(path): the file of that name is created or overwritten
save(dir, name, img) ==
    [n \in DOMAIN dir \cup {name} |-> IF n = name THEN img ELSE dir[n]]

\* the saving loop giving each image a name no file has yet
RECURSIVE save_loop_fresh_names(_, _, _)
save_loop_fresh_names(new_images, i, dir) ==
    IF i >= Len(new_images)
    THEN dir
    ELSE save_loop_fresh_names(new_images, i + 1,
             save(dir, image_name(Cardinality(DOMAIN dir)), new_images[i + 1]))

\* "for i, img in enumerate(new_images): img.save(path)" from image i on
\* (i from 0), in the directory dir
RECURSIVE save_loop(_, _, _)
save_loop(new_images, i, dir) ==
    IF i >= Len(new_images)
    THEN dir
    ELSE save_loop(new_images, i + 1, save(dir, image_name(i), new_images[i + 1]))

\* the saving loop, then return True; the result's aux field is the Python
\* type of the value returned
SaveAndReturn ==
    /\ pc = "save"
    /\ log' = log \o [k \in 1..Len(frame.new_images) |-> "save"]
    /\ gen_img' = save_loop(frame.new_images, 0, gen_img)
    /\ pc' = "done"
    /\ result' = Return(TRUE, "bool")
    /\ UNCHANGED frame
    /\ PipelineFrame

\* create_new_images(img_path, env_path) as one call, dir being the gen_img
\* directory of env_path when it is called and crossing_tensor_1,
\* crossing_tensor_2 the draws of its two crossing_over calls: its outcome,
\* its local variables and the directory when it ends
create_new_images(v, img_path, dir, crossing_tensor_1, crossing_tensor_2) ==
    LET img_encoded_tensor == flatten_img(img_path)
        crossed_img == crossing_over(v, img_encoded_tensor.value, pipeline_rate(v),
                                     crossing_tensor_1)
        more_crossing == crossing_over(v, img_encoded_tensor.value, pipeline_rate(v),
                                       crossing_tensor_2)
        new_tensors == cat(crossed_img.value, more_crossing.value)
        good_5_tensors == remove_worst_tensor(v, new_tensors)
        new_images == deflatten_img(v, good_5_tensors.value)
        f1 == [NoFrame EXCEPT !.img_encoded_tensor = img_encoded_tensor.value]
        f2 == [f1 EXCEPT !.crossed_img = crossed_img.value]
        f3 == [f2 EXCEPT !.more_crossing = more_crossing.value,
                         !.new_tensors = new_tensors]
        f4 == [f3 EXCEPT !.good_5_tensors = good_5_tensors.value,
                         !.new_images = new_images.value]
    IN  IF ~img_encoded_tensor.ok
        THEN [result |-> img_encoded_tensor, frame |-> NoFrame, gen_img |-> dir]
        ELSE IF ~crossed_img.ok
        THEN [result |-> crossed_img, frame |-> f1, gen_img |-> dir]
        ELSE IF ~more_crossing.ok
        THEN [result |-> more_crossing, frame |-> f2, gen_img |-> dir]
        ELSE IF ~good_5_tensors.ok
        THEN [result |-> good_5_tensors, frame |-> f3, gen_img |-> dir]
        ELSE [result |-> Return(TRUE, "bool"), frame |-> f4,
              gen_img |-> save_loop(new_images.value, 0, dir)]

Next ==
    \/ FlattenImg
    \/ CrossFirst
    \/ CrossSecond
    \/ Concatenate
    \/ KeepBest
    \/ DeflattenImg
    \/ SaveAndReturn

Spec == Init /\ [][Next]_vars

\* ---- create_new_images called again and again with the same env_path
\* how many calls are made
MaxRuns == 2

\* the seeds of the repeated calls: the three seed vectors in every order,
\* and a list with a file that cannot be opened
RepeatSeeds ==
    {p \in [1..NumSeeds -> SeedVectors] : \A j, k \in 1..NumSeeds : j # k => p[j] # p[k]}
    \cup {[k \in 1..NumSeeds |-> Missing]}

\* the draws of a crossing_over call of the repeated calls: one value for
\* all the components of all the members
RepeatDraws ==
    {[k \in 1..NumSeeds |-> [r \in Rows |-> [c \in Cols |-> d]]] : d \in Draws}

InitRepeat ==
    /\ variant \in Variants
    /\ gui = NoGui
    /\ pc = "idle"
    /\ initial = <<>>
    /\ population = <<>>
    /\ snapshot = <<>>
    /\ target = <<>>
    /\ rate = 0 /\ mode = "" /\ scale = ""
    /\ draws = <<>>
    /\ result = NoResult
    /\ frame = NoFrame /\ gen_img = <<>> /\ log = <<>>

\* one call of create_new_images from its first statement to its return or
\* to the exception it ends with; snapshot keeps the directory as it was
\* when the call was made
CreateNewImages ==
    /\ pc \in {"idle", "done", "raised"}
    /\ Len(log) < MaxRuns
    /\ \E img_path \in RepeatSeeds, crossing_tensor_1 \in RepeatDraws,
          crossing_tensor_2 \in RepeatDraws :
          LET call == create_new_images(variant, img_path, gen_img,
                                        crossing_tensor_1, crossing_tensor_2)
          IN  /\ initial' = img_path
              /\ draws' = <<crossing_tensor_1, crossing_tensor_2>>
              /\ result' = call.result
              /\ frame' = call.frame
              /\ gen_img' = call.gen_img
              /\ pc' = IF call.result.ok THEN "done" ELSE "raised"
    /\ snapshot' = gen_img
    /\ log' = Append(log, "create_new_images")
    /\ UNCHANGED <<gui, variant, population, target, rate, mode, scale>>

NextRepeat == CreateNewImages

SpecRepeat == InitRepeat /\ [][NextRepeat]_vars

\* ---- main_f.py: the form of window 2, then the choice of window 3
InitGui ==
    /\ variant = "src"
    /\ gui = NewF2
    /\ pc = "mainloop"
    /\ initial = <<>>
    /\ population = <<>>
    /\ snapshot = <<>>
    /\ target = <<>>
    /\ rate = 0 /\ mode = "" /\ scale = ""
    /\ draws = <<>>
    /\ result = NoResult
    /\ frame = NoFrame /\ gen_img = <<>> /\ log = <<>>

\* what no event of the windows writes
GuiFrame == UNCHANGED <<variant, pc, initial, population, snapshot, target, rate, mode,
                        scale, draws, result, frame, gen_img, log>>

\* the widgets' variables after a click on a widget: what the latest
\* handler left is gone
Clicked(g) == [g EXCEPT !.handler = "", !.read = <<>>, !.message = "", !.exc = ""]

\* a gender radio button: values 1, 2, 0 of vari
ChooseGenre ==
    /\ gui.window = "f2"
    /\ \E v \in {"1", "2", "0"} : gui' = [Clicked(gui) EXCEPT !.vari = v]
    /\ GuiFrame

\* an age radio button: values 3, 4, 0 of valeur
ChooseAge ==
    /\ gui.window = "f2"
    /\ \E v \in {"3", "4", "0"} : gui' = [Clicked(gui) EXCEPT !.valeur = v]
    /\ GuiFrame

\* an entry of the hair-colour Combobox
ChooseCheveux ==
    /\ gui.window = "f2"
    /\ \E k \in 1..Len(listtest) : gui' = [Clicked(gui) EXCEPT !.menucombo = listtest[k]]
    /\ GuiFrame

\* a click on one of the accessory check boxes
ToggleAccessoire ==
    /\ gui.window = "f2"
    /\ \/ gui' = [Clicked(gui) EXCEPT !.vlun = 1 - gui.vlun]
       \/ gui' = [Clicked(gui) EXCEPT !.vmous = 1 - gui.vmous]
       \/ gui' = [Clicked(gui) EXCEPT !.vbrd = 1 - gui.vbrd]
       \/ gui' = [Clicked(gui) EXCEPT !.vnsp = 1 - gui.vnsp]
    /\ GuiFrame

\* openf3, the handler of 'Envoyer'.  read is what the recup_ functions
\* returned to it, ans_user what liste_db returned
openf3 ==
    /\ gui.window = "f2"
    /\ LET g == gui.vari
           a == gui.valeur
           c == gui.menucombo
           acc == recup_valCkB(gui)
           test == verif_reponses(g, a, c, acc)
           ans_user == liste_db(g, a, c, acc)
       IN  IF test = FALSE
           THEN gui' = [NewF3(ans_user) EXCEPT !.handler = "openf3",
                                               !.read = <<g, a, c, acc>>]
           ELSE gui' = [gui EXCEPT !.handler = "openf3", !.read = <<g, a, c, acc>>,
                                   !.ans_user = ans_user, !.exc = "",
                                   !.message = "Veuillez remplir tous les champs"]
    /\ GuiFrame

\* a click on the check box of one of the 5 images
ToggleImage ==
    /\ gui.window = "f3"
    /\ \E k \in 1..5 : gui' = [Clicked(gui) EXCEPT !.vb[k] = 1 - gui.vb[k]]
    /\ GuiFrame

\* a click on the check box 'Finale'
ToggleFinale ==
    /\ gui.window = "f3"
    /\ gui' = [Clicked(gui) EXCEPT !.vfinal = 1 - gui.vfinal]
    /\ GuiFrame

\* openf4, the handler of 'Valider'.  An exception leaves the handler and
\* is reported by Tk; the window stays as it is.
openf4 ==
    /\ gui.window = "f3"
    /\ LET checkbut == recup_valCheckB(gui)
           pass4 == verif_rep(checkbut)
       IN  IF ~pass4.ok
           THEN gui' = [gui EXCEPT !.handler = "openf4", !.read = checkbut,
                                   !.message = "", !.exc = pass4.exc]
           ELSE IF pass4.value[1] = TRUE /\ pass4.value[3] = TRUE
           THEN gui' = [NoGui EXCEPT !.window = "f4", !.handler = "openf4",
                                     !.read = checkbut]
           ELSE IF pass4.value[1] = FALSE
           THEN gui' = [gui EXCEPT !.handler = "openf4", !.read = checkbut, !.exc = "",
                                   !.message = "Veuillez ne sélectionner qu'une image"]
           ELSE gui' = [gui EXCEPT !.handler = "openf4", !.read = checkbut, !.exc = "",
                                   !.message = ""]
    /\ GuiFrame

NextGui ==
    \/ ChooseGenre
    \/ ChooseAge
    \/ ChooseCheveux
    \/ ToggleAccessoire
    \/ openf3
    \/ ToggleImage
    \/ ToggleFinale
    \/ openf4

SpecGui == InitGui /\ [][NextGui]_vars

-----------------------------------------------------------------------------
(* Properties *)

\* s without its k-th member
RemoveAt(s, k) == [j \in 1..(Len(s) - 1) |-> IF j < k THEN s[j] ELSE s[j + 1]]

\* [channels, spatial] of an encoded image
ShapeOf(t) == <<Len(t), Len(t[1])>>

\* sum of the Euclidean distances of member k to the members of s
SumDist(s, k) == SeqSum([j \in 1..Len(s) |-> dist(s[k], s[j])])

\* C10: chose_closest_tensor returns, for a non-empty candidate sequence, a
\* candidate at minimal Euclidean distance of the target, and the first such
\* candidate in iteration order when several attain the minimum.
C10_ClosestIsFirstMinimizer ==
    (pc = "done" /\ log = <<"chose_closest_tensor">> /\ population # <<>>) =>
        /\ result.ok
        /\ \E k \in 1..Len(population) :
              /\ result.value = population[k]
              /\ result.aux = k
              /\ \A j \in 1..Len(population) :
                    SqDist(target, population[k]) <= SqDist(target, population[j])
              /\ \A j \in 1..(k - 1) :
                    SqDist(target, population[j]) > SqDist(target, population[k])

\* a call where two different candidates tie for the minimum
C10_Witness ==
    /\ pc = "done" /\ log = <<"chose_closest_tensor">>
    /\ result.ok
    /\ \E j, k \in 1..Len(population) :
          /\ j < k
          /\ population[j] # population[k]
          /\ SqDist(target, population[j]) = SqDist(target, population[k])
          /\ \A m \in 1..Len(population) :
                SqDist(target, population[j]) <= SqDist(target, population[m])
          /\ result.value = population[j]

C3_CrossingPreservesSizeShapeOrder ==
    (pc = "done" /\ log = <<"crossing_over">> /\ Len(snapshot) >= 2) =>
        /\ result.ok
        /\ Len(result.value) = Len(snapshot)
        /\ \A i \in 1..Len(snapshot) :
              /\ ShapeOf(result.value[i]) = ShapeOf(snapshot[i])
              /\ \A r \in Rows : \A c \in Cols :
                    \/ result.value[i][r][c] = snapshot[i][r][c]
                    \/ \E k \in 1..Len(snapshot) :
                          k # i /\ result.value[i][r][c] = snapshot[k][r][c]

\* C8: crossing_over on fewer than 2 members fails and returns no population.
C8_CrossingFailsBelowTwo ==
    (pc = "done" /\ log = <<"crossing_over">> /\ Len(snapshot) < 2) => ~result.ok

\* C4: on a population of at least 2 members remove_worst_tensor returns
\* the input with exactly one member removed, the others keeping their
\* values and their order.
C4_CullRemovesExactlyOne ==
    (log # <<>> /\ Head(log) = "remove_worst_tensor" /\ Len(snapshot) >= 2) =>
        /\ result.ok
        /\ Len(result.value) = Len(snapshot) - 1
        /\ \E k \in 1..Len(snapshot) : result.value = RemoveAt(snapshot, k)
        /\ population = result.value

\* a call on 3 members of which two attain the maximal score
C4_Witness ==
    /\ log # <<>> /\ Head(log) = "remove_worst_tensor"
    /\ Len(snapshot) = 3
    /\ result.ok
    /\ \E j, k \in 1..3 :
          /\ j # k
          /\ worst_score(variant, snapshot)[j] = worst_score(variant, snapshot)[k]
          /\ \A m \in 1..3 : worst_score(variant, snapshot)[m] <= worst_score(variant, snapshot)[j]
    /\ Len(population) = 2

\* C5: the member remove_worst_tensor removes is the one whose sum of
\* Euclidean distances to the other members is maximal, the one at the
\* lowest index when several attain the maximum.
C5_CullRemovesMaxSumOfDistances ==
    (log # <<>> /\ Head(log) = "remove_worst_tensor" /\ Len(snapshot) >= 2 /\ result.ok) =>
        /\ \A j \in 1..Len(snapshot) : SumDist(snapshot, j) <= SumDist(snapshot, result.aux)
        /\ \A j \in 1..(result.aux - 1) : SumDist(snapshot, j) < SumDist(snapshot, result.aux)
        /\ result.value = RemoveAt(snapshot, result.aux)

\* C9: N-1 successive calls on N >= 2 members leave exactly 1 member, and
\* every call on fewer than 2 members fails instead of returning a population.
C9_CullFailsBelowTwo ==
    (log # <<>> /\ Head(log) = "remove_worst_tensor") =>
        /\ (Len(initial) >= 2 /\ Len(log) = Len(initial) - 1) =>
              (result.ok /\ Len(population) = 1)
        /\ (Len(snapshot) < 2 => ~result.ok)

\* a call of mutate_img on a tensor of rank 2 or 3
MutateCalled ==
    /\ pc = "done" /\ log = <<"mutate_img">>
    /\ snapshot.type = "Tensor" /\ snapshot.dim \in {2, 3}

\* C6: mutate_img never modifies the tensor passed by the caller: for every
\* rank, mode and scale the caller's tensor holds the same values after the
\* call as before it.
C6_MutateLeavesInputIntact ==
    MutateCalled => population = snapshot

\* C7: on a tensor of rank 2 or 3, a mode outside {add, reconstruct} or a
\* scale outside {partial, total} makes mutate_img fail with a ValueError
\* that names the offending parameter, and no result is returned.  (The
\* src file's message calls the mode parameter "modif"; that is taken here
\* as naming it.)
C7_MutateRejectsBadModeOrScale ==
    (MutateCalled /\ (mode \notin {"add", "reconstruct"} \/ scale \notin {"partial", "total"})) =>
        /\ ~result.ok
        /\ result.exc = "ValueError"
        /\ IF mode \notin {"add", "reconstruct"}
           THEN result.param \in {"mode", "modif"}
           ELSE result.param = "scale"

\* how many times call occurs in the log
RECURSIVE Count(_, _)
Count(l, call) ==
    IF l = <<>> THEN 0 ELSE (IF l[1] = call THEN 1 ELSE 0) + Count(Tail(l), call)

\* C1: every call of create_new_images on 3 seed images that the codec can
\* encode applies culling exactly once, to the merged population of 6
\* members, and hands exactly 5 candidates of the seed shape to decoding.
C1_CullOnceSixToFive ==
    (pc \in {"done", "raised"} /\ \A k \in 1..NumSeeds : initial[k] # Missing) =>
        /\ Count(log, "remove_worst_tensor") = 1
        /\ Len(frame.new_tensors) = 6
        /\ Count(log, "deflatten_img") = 1
        /\ Len(frame.good_5_tensors) = 5
        /\ \A k \in 1..Len(frame.good_5_tensors) :
              ShapeOf(frame.good_5_tensors[k]) = ShapeOf(initial[1])
        /\ Len(frame.new_images) = 5

\* C11: in a population of exactly 2 members the donor crossing_over selects
\* for each member is the other member, whatever the two members' values
\* are, two members equal in value included.
C11_DonorOfTwoIsTheOther ==
    (pc = "done" /\ log = <<"crossing_over">> /\ Len(snapshot) = 2) =>
        /\ result.ok
        /\ result.aux = <<snapshot[2], snapshot[1]>>

\* C20: in crossing_over the donor of member i is chosen among exactly the
\* members at the indices other than i, a member equal in value to member i
\* included, and it is the nearest of them by Euclidean distance (the first
\* such member when several are nearest).
C20_DonorIsNearestOtherIndex ==
    (pc = "done" /\ log = <<"crossing_over">> /\ result.ok) =>
        \A i \in 1..Len(snapshot) :
            \E k \in 1..Len(snapshot) :
                /\ k # i
                /\ result.aux[i] = snapshot[k]
                /\ \A j \in 1..Len(snapshot) :
                      j # i => SqDist(snapshot[i], snapshot[k]) <= SqDist(snapshot[i], snapshot[j])

\* the two calls of the reordering driver have been made
Reculled ==
    pc = "done" /\ log = <<"remove_worst_tensor", "remove_worst_tensor">>

\* C12 as stated: reordering the members that remove_worst_tensor did not
\* select leaves its choice unchanged: the call on the reordered population
\* removes a member of the same value.
C12_CullChoiceIgnoresOrder ==
    Reculled =>
        /\ result.ok
        /\ population[result.aux] = initial[target.aux]

\* no member of another value attains the score of the removed member
OutlierStandsAlone ==
    \A j \in 1..Len(initial) :
        worst_score(variant, initial)[j] = worst_score(variant, initial)[target.aux]
            => initial[j] = initial[target.aux]

\* C12 amended: when no member of a different value ties with the removed
\* member for the maximal score, reordering the other members leaves the
\* choice unchanged: a member of the same value is removed and the others
\* are returned in their new order.
C12_CullChoiceIgnoresOrderUnlessTied ==
    (Reculled /\ OutlierStandsAlone) =>
        /\ result.ok
        /\ population[result.aux] = initial[target.aux]
        /\ result.value = RemoveAt(population, result.aux)

\* three different members, the removed one not the first, the two others
\* exchanged
C12_Witness ==
    /\ Reculled /\ OutlierStandsAlone
    /\ Len(initial) = 3
    /\ target.aux > 1
    /\ population # initial
    /\ Cardinality({initial[k] : k \in 1..3}) = 3
    /\ result.ok
    /\ population[result.aux] = initial[target.aux]

\* C13: in create_new_images the surviving encoded images are decoded in
\* population order and save is called exactly once per survivor, after the
\* decoding, with the name image{i}.png where i is the survivor's index in
\* population order, i ranging over 0..4.
C13_SavedOncePerSurvivorInOrder ==
    pc = "done" =>
        /\ Len(frame.good_5_tensors) = 5
        /\ Len(frame.new_images) = 5
        /\ \A i \in 0..4 : frame.new_images[i + 1].decoded = frame.good_5_tensors[i + 1]
        /\ Cardinality(DOMAIN gen_img) = 5
        /\ \A i \in 0..4 :
              /\ <<"image", i, ".png">> \in DOMAIN gen_img
              /\ gen_img[<<"image", i, ".png">>] = frame.new_images[i + 1]
        /\ Count(log, "save") = 5
        /\ \A k \in 1..Len(log) :
              log[k] = "save" => \E j \in 1..(k - 1) : log[j] = "deflatten_img"

\* a finished run whose survivors are not all equal, so that their order shows
C13_Witness ==
    /\ pc = "done"
    /\ Cardinality(DOMAIN gen_img) = 5
    /\ gen_img[<<"image", 0, ".png">>].decoded # gen_img[<<"image", 4, ".png">>].decoded
    /\ gen_img[<<"image", 0, ".png">>].decoded = frame.good_5_tensors[1]
    /\ gen_img[<<"image", 4, ".png">>].decoded = frame.good_5_tensors[5]

\* C14 as stated: a successful call of create_new_images returns to its
\* caller the ordered sequence of the 5 decoded images, in population order.
C14_ReturnsDecodedImages ==
    pc = "done" =>
        /\ result.ok
        /\ result.aux = "list"
        /\ result.value = frame.new_images
        /\ Len(result.value) = 5

\* C14 amended: a successful call of create_new_images returns True; the 5
\* decoded images, in population order, are what it has saved, not what it
\* returns.
C14_ReturnsTrueAndSavesImages ==
    pc = "done" =>
        /\ result.ok
        /\ result.aux = "bool"
        /\ result.value = TRUE
        /\ Cardinality(DOMAIN gen_img) = 5
        /\ \A k \in 1..5 :
              /\ image_name(k - 1) \in DOMAIN gen_img
              /\ gen_img[image_name(k - 1)].decoded = frame.good_5_tensors[k]

\* a successful call of the src file, whose images went through the filters
C14_Witness ==
    /\ pc = "done"
    /\ variant = "src"
    /\ result.ok /\ result.aux = "bool"
    /\ Cardinality(DOMAIN gen_img) = 5
    /\ \A n \in DOMAIN gen_img : gen_img[n].filters = <<"SMOOTH", "SHARPEN">>

\* C15: when a seed image cannot be encoded, create_new_images ends with the
\* failure of flatten_img, made once, and makes no crossover, no culling, no
\* decoding and no save in that call.
C15_EncodeFailureAborts ==
    ((\E k \in 1..NumSeeds : initial[k] = Missing) /\ pc # "flatten_img") =>
        /\ pc = "raised"
        /\ ~result.ok
        /\ result.exc = "FileNotFoundError"
        /\ log = <<"flatten_img">>
        /\ frame = NoFrame
        /\ gen_img = <<>>

\* a failure on the last seed, after two seeds that can be encoded
C15_Witness ==
    /\ pc = "raised"
    /\ initial[1] # Missing /\ initial[2] # Missing /\ initial[3] = Missing
    /\ log = <<"flatten_img">>
    /\ ~result.ok

\* the component of an encoded image that is not zero, when there is one only
Nonzero(t) == {p \in Rows \X Cols : t[p[1]][p[2]] # 0}

\* 3 seeds that are all-zero except for one entry each and pairwise different
DistinctSingleEntrySeeds ==
    /\ \A k \in 1..NumSeeds : initial[k] # Missing
    /\ \A k \in 1..NumSeeds : Cardinality(Nonzero(initial[k])) = 1
    /\ \A j, k \in 1..NumSeeds : j # k => initial[j] # initial[k]

\* create_new_images, given 3 such seeds, has produced its candidates
CandidatesProduced ==
    /\ pc \in {"deflatten_img", "save", "done"}
    /\ DistinctSingleEntrySeeds

\* C16 as stated: from 3 such seeds the 5 candidates create_new_images
\* produces are pairwise different in value, whatever the swap masks are.
C16_CandidatesPairwiseDifferent ==
    CandidatesProduced =>
        /\ Len(frame.good_5_tensors) = 5
        /\ \A j, k \in 1..Len(frame.good_5_tensors) :
              j # k => frame.good_5_tensors[j] # frame.good_5_tensors[k]

\* seed d is a nearest seed to seed i among the two others
NearestSeed(i, d) ==
    /\ d # i
    /\ \A j \in 1..NumSeeds :
          j # i => SqDist(initial[i], initial[d]) <= SqDist(initial[i], initial[j])

\* C16 amended: from 3 such seeds create_new_images produces exactly 5
\* candidates of the seed shape, each of them a seed in which some
\* components are replaced by those of its nearest other seed; two of them
\* can be equal in value.
C16_CandidatesMixSeedAndNearest ==
    CandidatesProduced =>
        /\ Len(frame.good_5_tensors) = 5
        /\ \A k \in 1..Len(frame.good_5_tensors) :
              /\ ShapeOf(frame.good_5_tensors[k]) = ShapeOf(initial[1])
              /\ \E i, d \in 1..NumSeeds :
                    /\ NearestSeed(i, d)
                    /\ \A r \in Rows : \A c \in Cols :
                          frame.good_5_tensors[k][r][c] \in {initial[i][r][c], initial[d][r][c]}

\* a run from 3 such seeds with a candidate that is none of the seeds and
\* two candidates that are equal
C16_Witness ==
    /\ pc = "done" /\ DistinctSingleEntrySeeds
    /\ \E k \in 1..5 : \A i \in 1..NumSeeds : frame.good_5_tensors[k] # initial[i]
    /\ \E j, k \in 1..5 : j # k /\ frame.good_5_tensors[j] = frame.good_5_tensors[k]

\* C17: under scale 'partial', for both modes and both ranks, every
\* component whose uniform draw is >= mutation_rate has the same value in
\* the result of mutate_img as in its input; with mutation_rate 0 the result
\* equals the input.
C17_PartialKeepsUnselected ==
    (MutateCalled /\ scale = "partial" /\ mode \in {"add", "reconstruct"}) =>
        /\ result.ok
        /\ IF snapshot.dim = 2
           THEN \A r \in Rows : \A c \in Cols :
                    draws.proba[1][r][c] >= rate => result.value[r][c] = snapshot.data[r][c]
           ELSE \A i \in 1..Len(snapshot.data) : \A r \in Rows : \A c \in Cols :
                    draws.proba[i][r][c] >= rate
                        => result.value[i][r][c] = snapshot.data[i][r][c]
        /\ (rate = 0 => result.value = snapshot.data)

\* a reconstruction of 2 members at rate 0.5 where a component drawn below
\* the rate is changed and a component drawn at the rate is kept
C17_Witness ==
    /\ MutateCalled /\ scale = "partial" /\ mode = "reconstruct"
    /\ snapshot.dim = 3 /\ Len(snapshot.data) = 2
    /\ rate = 5
    /\ result.ok
    /\ \E c1, c2 \in Cols :
          /\ draws.proba[2][1][c1] < rate
          /\ result.value[2][1][c1] # snapshot.data[2][1][c1]
          /\ draws.proba[2][1][c2] >= rate
          /\ result.value[2][1][c2] = snapshot.data[2][1][c2]

\* C18: the Euclidean distance the operators use is symmetric, non-negative,
\* and zero exactly when its two arguments are elementwise equal; so a
\* candidate equal to the target is a closest one, and the distance of an
\* encoded image to a whole population is zero exactly when every member
\* equals it.
C18_DistanceSymmetricAndDefinite ==
    (pc = "done" /\ log = <<"chose_closest_tensor">>) =>
        LET all == <<target>> \o population
        IN  /\ \A j, k \in 1..Len(all) :
                  LET d == dist(all[j], all[k])
                  IN  /\ d = dist(all[k], all[j])
                      /\ d >= 0
                      /\ (d = 0) <=> (all[j] = all[k])
            /\ (\E k \in 1..Len(population) : population[k] = target)
                  => (result.ok /\ result.value = target)
            /\ (dist_to_all(target, population) = 0)
                  <=> (\A k \in 1..Len(population) : population[k] = target)

\* a search among candidates of which a later one equals the target and an
\* earlier one does not
C18_Witness ==
    /\ pc = "done" /\ log = <<"chose_closest_tensor">>
    /\ \E j, k \in 1..Len(population) :
          /\ j < k
          /\ population[j] # target
          /\ population[k] = target
          /\ dist(target, population[j]) > 0
    /\ result.ok /\ result.value = target

\* C19: mutate_img fails with a TypeError and returns nothing when its
\* input is not a tensor, and when it is a tensor whose rank is neither 2
\* nor 3, whatever the mode and scale arguments are.
C19_MutateRejectsTypeAndRank ==
    (pc = "done" /\ log = <<"mutate_img">>
        /\ (snapshot.type # "Tensor" \/ snapshot.dim \notin {2, 3})) =>
        /\ ~result.ok
        /\ result.exc = "TypeError"
        /\ result.value = <<>>
        /\ population = snapshot

\* a rank-1 tensor handed over with a wrong mode and a wrong scale
C19_Witness ==
    /\ pc = "done" /\ log = <<"mutate_img">>
    /\ snapshot.type = "Tensor" /\ snapshot.dim = 1
    /\ mode = "blend" /\ scale = "blend"
    /\ ~result.ok /\ result.exc = "TypeError"

\* C21: crossing_over computes every output member from the unmodified
\* input population: the donor of member i is a member of the input, also
\* after the members before it have been written to the output, and member
\* i of the output takes each component from input member i or from that
\* donor.
C21_CrossingReadsInputOnly ==
    (pc = "done" /\ log = <<"crossing_over">> /\ result.ok) =>
        \A i \in 1..Len(snapshot) :
            /\ \E k \in 1..Len(snapshot) : result.aux[i] = snapshot[k]
            /\ \A r \in Rows : \A c \in Cols :
                  result.value[i][r][c] \in {snapshot[i][r][c], result.aux[i][r][c]}

\* a crossing whose first output member is no member of the input, while
\* the donor of the second member is one
C21_Witness ==
    /\ pc = "done" /\ log = <<"crossing_over">> /\ result.ok
    /\ Len(snapshot) = 3
    /\ \A k \in 1..3 : result.value[1] # snapshot[k]
    /\ \E k \in 1..3 : result.aux[2] = snapshot[k]
    /\ result.value[2] # snapshot[2]

\* C25: crossing_over (like mutate_img) fails when its rate is outside
\* [0, 1] and produces no result.
C25_RateOutsideUnitIntervalFails ==
    (pc = "done" /\ log = <<"crossing_over">> /\ (rate < 0 \/ rate > 10)) =>
        /\ ~result.ok
        /\ result.value = <<>>

\* the members of the population t are crossings of the seeds: member i
\* takes each component from seed i or from one other seed, the same for
\* all its components
CrossingOfSeeds(t) ==
    /\ Len(t) = Len(initial)
    /\ \A i \in 1..Len(t) : \E k \in 1..Len(initial) :
          \A r \in Rows : \A c \in Cols :
              t[i][r][c] \in {initial[i][r][c], initial[k][r][c]}

\* C22: both crossing passes of create_new_images take the population of
\* the 3 seeds: the second pass crosses the seeds, not the output of the
\* first; the merged population of 6 is the outputs of the first pass in
\* order followed by the outputs of the second pass in order.
C22_BothPassesCrossTheSeeds ==
    (pc \in {"remove_worst_tensor", "deflatten_img", "save", "done"}) =>
        /\ frame.img_encoded_tensor = initial
        /\ CrossingOfSeeds(frame.crossed_img)
        /\ CrossingOfSeeds(frame.more_crossing)
        /\ Len(frame.new_tensors) = 2 * NumSeeds
        /\ \A i \in 1..NumSeeds :
              /\ frame.new_tensors[i] = frame.crossed_img[i]
              /\ frame.new_tensors[NumSeeds + i] = frame.more_crossing[i]

\* a run whose first pass changed every seed and whose second pass
\* returned the seeds as they were
C22_Witness ==
    /\ pc = "done"
    /\ \A i \in 1..NumSeeds : frame.crossed_img[i] # initial[i]
    /\ frame.more_crossing = initial
    /\ frame.new_tensors = frame.crossed_img \o initial

\* C26: every component of every latent vector create_new_images hands to
\* decoding equals the component at the same position of one of the 3
\* seeds.
C26_SurvivorsAreMadeOfSeedComponents ==
    (pc \in {"deflatten_img", "save", "done"}) =>
        \A k \in 1..Len(frame.good_5_tensors) : \A r \in Rows : \A c \in Cols :
            \E j \in 1..NumSeeds :
                frame.good_5_tensors[k][r][c] = initial[j][r][c]

\* a run that decoded a survivor equal to none of the seeds
C26_Witness ==
    /\ pc = "done"
    /\ \E k \in 1..Len(frame.new_images) :
          /\ frame.new_images[k].decoded = frame.good_5_tensors[k]
          /\ \A j \in 1..NumSeeds : frame.good_5_tensors[k] # initial[j]

\* the draws torch.randn(selected_size) must yield for the rank-2 branch to
\* give each selected component the draw that normal holds at its position:
\* the draws of the selected positions, in the order of the selection
DrawsInSelectionOrder(cond, normal) ==
    [r \in Rows |-> [c \in Cols |->
        LET k == (r - 1) * Shape[2] + c
            hits == {p \in Rows \X Cols : cond[p[1]][p[2]] /\ SelRank(cond, p[1], p[2]) = k}
        IN  IF hits = {}
            THEN normal[r][c]
            ELSE LET p == CHOOSE q \in hits : TRUE IN normal[p[1]][p[2]]]]

\* what the rank-2 branch returns for member i alone of the rank-3 tensor of
\* the call, under the mode, scale, rate and draws of the call
MemberAlone(i) ==
    LET valid == mode \in {"add", "reconstruct"} /\ scale \in {"partial", "total"}
        proba == IF valid THEN draws.proba[i] ELSE <<>>
        normal == IF valid THEN draws.normal[i] ELSE <<>>
    IN  mutate_rank2(variant, snapshot.data[i], rate, DefaultNoise, mode, scale, proba,
                     IF mode = "reconstruct" /\ scale = "partial"
                     THEN DrawsInSelectionOrder(selected(proba, rate), normal)
                     ELSE normal)

\* C23: on a rank-3 tensor mutate_img returns, member by member, what its
\* rank-2 branch returns for that member alone under the same mode, scale,
\* rate and draws, and fails as the rank-2 branch fails when the rank-2
\* branch rejects the arguments.
C23_Rank3IsRank2PerMember ==
    (MutateCalled /\ snapshot.dim = 3) =>
        IF \A i \in 1..Len(snapshot.data) : MemberAlone(i).ok
        THEN /\ result.ok
             /\ \A i \in 1..Len(snapshot.data) : result.value[i] = MemberAlone(i).value
        ELSE /\ ~result.ok
             /\ \E i \in 1..Len(snapshot.data) :
                   /\ ~MemberAlone(i).ok
                   /\ result.exc = MemberAlone(i).exc
                   /\ result.param = MemberAlone(i).param

\* the members of the tensor of a mutate_img call, before and after it
MembersBefore == IF snapshot.dim = 2 THEN <<snapshot.data>> ELSE snapshot.data
MembersAfter == IF snapshot.dim = 2 THEN <<result.value>> ELSE result.value

\* the components of member i the call replaces
Replaced(i) ==
    IF scale = "total"
    THEN [r \in Rows |-> [c \in Cols |-> TRUE]]
    ELSE selected(draws.proba[i], rate)

\* the normal draw made for component [r][c] of member i: the rank-2 branch
\* draws for the selected components only, in their order
DrawFor(i, r, c) ==
    IF snapshot.dim = 2 /\ scale = "partial"
    THEN Flatten(draws.normal[i])[SelRank(Replaced(i), r, c)]
    ELSE draws.normal[i][r][c]

GeneratedNames == {image_name(i) : i \in 0..4}

\* C27: however often create_new_images is called with the same environment
\* path, the gen_img directory holds files named image0.png..image4.png
\* only, hence never more than 5, and after a call that returned they are
\* the 5 images of that call: the files of the calls before it have been
\* overwritten.
C27_StoreHoldsLatestFiveOnly ==
    /\ DOMAIN gen_img \subseteq GeneratedNames
    /\ Cardinality(DOMAIN gen_img) <= 5
    /\ (pc = "done" =>
          /\ DOMAIN gen_img = GeneratedNames
          /\ \A i \in 0..4 : gen_img[image_name(i)] = frame.new_images[i + 1])

\* a second call that returned, made on a directory that held the 5 files
\* of an earlier call, every one of them now holding another image
C27_Witness ==
    /\ pc = "done" /\ Len(log) >= 2
    /\ DOMAIN snapshot = GeneratedNames
    /\ DOMAIN gen_img = GeneratedNames
    /\ \A n \in GeneratedNames : gen_img[n] # snapshot[n]

\* how many of the 5 image boxes were ticked when the latest handler read them
ImagesTicked == Cardinality({k \in 1..5 : gui.read[k] = 1})

\* C28: in window 3, whatever the 5 image boxes and 'Finale' hold, 'Valider'
\* either destroys window 3 and opens window 4, exactly when exactly one
\* image and 'Finale' are ticked, or leaves window 3 open, with the warning
\* to select only one image whenever the number of ticked images is not
\* one; the handler never fails.
C28_ValiderOpensF4OrWarns ==
    (gui.handler = "openf4") =>
        /\ gui.exc = ""
        /\ gui.window \in {"f3", "f4"}
        /\ (gui.window = "f4") <=> (ImagesTicked = 1 /\ gui.read[6] = 1)
        /\ (ImagesTicked # 1) =>
              /\ gui.window = "f3"
              /\ gui.message = "Veuillez ne sélectionner qu'une image"

\* every field of the form of window 2 was filled when 'Envoyer' was pressed:
\* a gender and an age chosen, a hair colour other than the entry shown at
\* the start, an accessory box ticked
AllFieldsFilled ==
    /\ gui.read[1] # ""
    /\ gui.read[2] # ""
    /\ gui.read[3] # listtest[1]
    /\ \E k \in 1..4 : gui.read[4][k] = 1

\* C29: in window 2, 'Envoyer' destroys window 2 and opens window 3 only
\* when every field is filled; whenever a field is not filled the warning to
\* fill all the fields is shown and window 2 stays open.
C29_EnvoyerNeedsAllFields ==
    (gui.handler = "openf3") =>
        /\ (gui.window = "f3") => AllFieldsFilled
        /\ ~AllFieldsFilled =>
              /\ gui.window = "f2"
              /\ gui.message = "Veuillez remplir tous les champs"

\* C30: in the value row liste_db returns, the entries of Lunettes,
\* Moustache and Barbe are 1 exactly when the check box of that accessory is
\* ticked, and 0 otherwise.
C30_AccessoryEntriesFollowBoxes ==
    (gui.handler = "openf3") =>
        \A k \in 1..3 :
            /\ gui.ans_user[2][3 + k] \in {0, 1}
            /\ (gui.ans_user[2][3 + k] = 1) <=> (gui.read[4][k] = 1)

====
